---- MODULE Spec2Model ----
(***************************************************************************)
(* Model of the Dictofon voice recorder (App, RecordingItem,               *)
(* geminiService.transcribeAudio, audioUtils).                             *)
(*                                                                         *)
(* The UI runs on one event loop: every action below is one task of that   *)
(* loop (a click handler, or the continuation of an async function after   *)
(* an await, or a browser callback), executed atomically.  React renders   *)
(* between tasks, so the values a handler closes over are the values of    *)
(* the state at the moment the handler is invoked.                         *)
(*                                                                         *)
(* Time is counted in timer periods (the 100 ms of setInterval);           *)
(* recordingTime, timestamps and durations of captures use that unit.      *)
(***************************************************************************)
EXTENDS Integers, Sequences, FiniteSets

----------------------------------------------------------------------------
(* Bounds of the model *)

MaxRecordings == 2

MaxSessions == 2

MaxNow == 1

MaxSeconds == 725

MaxFrames == 3

----------------------------------------------------------------------------
(* Values *)

IDLE == "IDLE"

LOADING == "LOADING"

SUCCESS == "SUCCESS"

ERROR == "ERROR"

TranscriptionStatus == {IDLE, LOADING, SUCCESS, ERROR}

\* null of a number-valued reference (ids, streams and timers count from 1)
Null == 0

\* null / undefined of a string-valued field
NullStr == "null"

Undefined == "undefined"

\* the message texts are transliterated: the module is ASCII
PERMISSION_DENIED == "Dostup k mikrofonu zapreshchen. Pozhaluysta, razreshite dostup dlya zapisi."

TRANSCRIBE_FAILED == "Ne udalos transkribirovat."

TRANSCRIBE_AUDIO_FAILED == "Ne udalos transkribirovat audio."

NO_TRANSCRIPT == "Transkriptsiya ne sozdana."

\* response.text of the service: empty, or some text
ResponseTexts == {"", "privet"}

\* error.message of a failed service call: absent/empty, or some message
ErrorMessages == {"", "Failed to fetch"}

\* the files the user can choose in the picker; duration is audio.duration
Files == {[name |-> "a.mp3", type |-> "audio/mpeg", parts |-> <<100>>, duration |-> 2]}

VARIABLES
    isRecording,        \* App state
    recordings,         \* App state: sequence of Recording, head first
    recordingTime,      \* App state
    mediaStream,        \* App state: the session whose stream is shown, or Null
    permissionError,    \* App state: message or NullStr
    mediaRecorderRef,   \* ref: the session whose recorder it holds, or Null
    chunksRef,          \* ref: sequence of chunks
    timerRef,           \* ref: the session whose interval it holds, or Null
    sessions,           \* one record per startRecording invocation
    transcribing,       \* handleTranscribe invocations suspended in their await
    uploads,            \* handleFileChange invocations suspended in getAudioDuration
    objectURLs,         \* URLs created by URL.createObjectURL and not revoked
    uuidCount,          \* number of uuidv4() results so far
    now,                \* Date.now()
    lastOp,             \* the step of the transcription flow that ran last, if one did
    seconds,            \* argument of formatDuration
    formatted,          \* result of formatDuration
    mounted,            \* AudioVisualizer is mounted
    effectDeps,         \* AudioVisualizer: [stream, isRecording] of the effect run last
    effectCleanup,      \* AudioVisualizer: that run returned its cleanup function
    animationRef,       \* AudioVisualizer ref: an animation frame id, or Null
    pendingFrames,      \* callbacks requestAnimationFrame holds: [id, isRecording]
    frameCount,         \* number of requestAnimationFrame results so far
    canvas              \* what the canvas shows: "clear" or "bars"

appVars == <<isRecording, recordings, recordingTime, mediaStream, permissionError,
             mediaRecorderRef, chunksRef, timerRef, sessions, transcribing, uploads,
             objectURLs, uuidCount, now, lastOp>>

fmtVars == <<seconds, formatted>>

vizVars == <<mounted, effectDeps, effectCleanup, animationRef, pendingFrames, frameCount,
             canvas>>

vars == <<isRecording, recordings, recordingTime, mediaStream, permissionError,
          mediaRecorderRef, chunksRef, timerRef, sessions, transcribing, uploads,
          objectURLs, uuidCount, now, lastOp, seconds, formatted, mounted, effectDeps,
          effectCleanup, animationRef, pendingFrames, frameCount, canvas>>

----------------------------------------------------------------------------
(* Helpers on sequences *)

Indices(s) == 1..Len(s)

RemoveAt(s, k) == [j \in 1..(Len(s) - 1) |-> IF j < k THEN s[j] ELSE s[j + 1]]

Op(name, id, info) == [op |-> name, id |-> id, info |-> info]

NoOp == Op("none", Null, "")

Ids(recs) == {recs[j].id : j \in Indices(recs)}

----------------------------------------------------------------------------
(* The recordings list *)

\* URL.createObjectURL returns a URL it never returned before.  The URL made for
\* the blob of a recording is named by the recording's id; the URL getAudioDuration
\* makes is a negative number below every one made before it.
RecordingUrl(id) == id

MetadataUrl == 0 - (uuidCount + Len(uploads) + 1)


\* SetLoading building the item anew without its optional name
SetLoadingNameless(prev, id) ==
    [j \in Indices(prev) |->
        IF prev[j].id = id
        THEN [prev[j] EXCEPT !.status = LOADING, !.error = Undefined, !.name = Undefined]
        ELSE prev[j]]

\* SetLoading without error: undefined
SetLoadingKeepError(prev, id) ==
    [j \in Indices(prev) |->
        IF prev[j].id = id THEN [prev[j] EXCEPT !.status = LOADING] ELSE prev[j]]

\* prev.map(r => r.id === id ? {...r, status: LOADING, error: undefined} : r)
SetLoading(prev, id) ==
    [j \in Indices(prev) |->
        IF prev[j].id = id
        THEN [prev[j] EXCEPT !.status = LOADING, !.error = Undefined]
        ELSE prev[j]]

\* SetSuccess matching the recording by its status instead of its id
SetSuccessByStatus(prev, id, transcript) ==
    [j \in Indices(prev) |->
        IF prev[j].status = LOADING
        THEN [prev[j] EXCEPT !.status = SUCCESS, !.transcript = transcript]
        ELSE prev[j]]

\* prev.map(r => r.id === id ? {...r, status: SUCCESS, transcript} : r)
SetSuccess(prev, id, transcript) ==
    [j \in Indices(prev) |->
        IF prev[j].id = id
        THEN [prev[j] EXCEPT !.status = SUCCESS, !.transcript = transcript]
        ELSE prev[j]]

\* SetError storing the message without the status
SetErrorMessageOnly(prev, id) ==
    [j \in Indices(prev) |->
        IF prev[j].id = id THEN [prev[j] EXCEPT !.error = TRANSCRIBE_FAILED] ELSE prev[j]]

\* prev.map(r => r.id === id ? {...r, status: ERROR, error: "..."} : r)
SetError(prev, id) ==
    [j \in Indices(prev) |->
        IF prev[j].id = id
        THEN [prev[j] EXCEPT !.status = ERROR, !.error = TRANSCRIBE_FAILED]
        ELSE prev[j]]

\* AddRecording as [...prev, newRecording]
AddRecordingLast(newRecording, prev) == prev \o <<newRecording>>

\* [newRecording, ...prev]
AddRecording(newRecording, prev) == <<newRecording>> \o prev

\* RemoveRecording removing the older recordings as well
RemoveRecordingAndOlder(prev, id) == SelectSeq(prev, LAMBDA r : r.id > id)

\* prev.filter(r => r.id !== id)
RemoveRecording(prev, id) == SelectSeq(prev, LAMBDA r : r.id # id)

\* CanTranscribe without the guard
CanTranscribeAlways(status) == TRUE

\* CanTranscribe letting a click through while the recording is LOADING
CanTranscribeUnlessSuccess(status) == status # SUCCESS

\* RecordingItem.handleTranscribe: the guard before onTranscribe(recording.id)
CanTranscribe(status) == status = IDLE \/ status = ERROR

----------------------------------------------------------------------------
(* audioUtils.formatDuration.  A string is a sequence of one-character       *)
(* strings.                                                                  *)

Digits == <<"0", "1", "2", "3", "4", "5", "6", "7", "8", "9">>

RECURSIVE toString(_)
\* Number.prototype.toString of a whole number n >= 0
toString(n) ==
    IF n < 10 THEN <<Digits[n + 1]>> ELSE toString(n \div 10) \o <<Digits[(n % 10) + 1]>>

\* padStart that pads nothing
padStartNothing(str, targetLength, padString) == str

RECURSIVE padStart(_, _, _)
\* String.prototype.padStart with a one-character filler
padStart(str, targetLength, padString) ==
    IF Len(str) >= targetLength THEN str
    ELSE padStart(<<padString>> \o str, targetLength, padString)

\* formatDuration of a whole number of seconds >= 0 (Math.floor changes nothing)
formatDuration(secondsIn) ==
    LET mins == secondsIn \div 60
        secs == secondsIn % 60
    IN toString(mins) \o <<":">> \o padStart(toString(secs), 2, "0")

----------------------------------------------------------------------------
InitApp ==
    /\ isRecording = FALSE
    /\ recordings = <<>>
    /\ recordingTime = 0
    /\ mediaStream = Null
    /\ permissionError = NullStr
    /\ mediaRecorderRef = Null
    /\ chunksRef = <<>>
    /\ timerRef = Null
    /\ sessions = <<>>
    /\ transcribing = <<>>
    /\ uploads = <<>>
    /\ objectURLs = {}
    /\ uuidCount = 0
    /\ now = 0
    /\ lastOp = NoOp

\* AudioVisualizer once mounted: its effect has run with stream null and isRecording
\* false and has returned at its first line
InitVisualizer ==
    /\ mounted = TRUE
    /\ effectDeps = [stream |-> Null, isRecording |-> FALSE]
    /\ effectCleanup = FALSE
    /\ animationRef = Null
    /\ pendingFrames = {}
    /\ frameCount = 0
    /\ canvas = "clear"

Init == InitApp /\ InitVisualizer /\ seconds = 0 /\ formatted = <<>>

\* recordings created so far plus those the pending operations will create
Committed ==
    uuidCount + Len(uploads)
    + Cardinality({s \in Indices(sessions) :
                     sessions[s].phase \in {"awaiting", "recording", "stopping", "flushed"}})

\* Date.now() advances between tasks
AdvanceClock ==
    /\ now < MaxNow
    /\ now' = now + 1
    /\ lastOp' = NoOp
    /\ UNCHANGED <<isRecording, recordings, recordingTime, mediaStream, permissionError,
                   mediaRecorderRef, chunksRef, timerRef, sessions, transcribing, uploads,
                   objectURLs, uuidCount, seconds, formatted, vizVars>>

----------------------------------------------------------------------------
(* Recording session: App.startRecording, the recorder's and the timer's     *)
(* callbacks, App.stopRecording.  A session record is one invocation of      *)
(* startRecording with the stream, recorder and interval it creates:         *)
(*   phase        awaiting  (suspended in await getUserMedia)                *)
(*                denied    (getUserMedia rejected)                          *)
(*                failed    (the recorder threw after the stream was got)    *)
(*                recording (mediaRecorder.start() done)                     *)
(*                stopping  (stop() called, dataavailable not yet fired)     *)
(*                flushed   (dataavailable fired, stop event not yet fired)  *)
(*                stopped   (onstop ran)                                     *)
(*   closureTime  recordingTime of the render whose startRecording this is   *)
(*   startTime    Date.now() when the interval was created                   *)
(*   live         the stream has a track that was not stopped                *)
(*   timer        the interval exists and was not cleared                    *)
(* Once onstop has run nothing reads closureTime again, and nothing reads    *)
(* startTime once the interval is cleared: they are then set to 0.           *)
(***************************************************************************)

NewSession(closureTime) ==
    [phase |-> "awaiting", closureTime |-> closureTime, startTime |-> 0,
     live |-> FALSE, timer |-> FALSE]

\* const duration = recordingTime, in the onstop closure of session s
OnStopDuration(s) == sessions[s].closureTime

\* the Recording built by mediaRecorder.onstop
CapturedRecording(s, id, url) ==
    [id |-> id,
     blob |-> [type |-> "audio/webm", parts |-> chunksRef],
     url |-> url,
     timestamp |-> now,
     duration |-> OnStopDuration(s),
     transcript |-> NullStr,
     status |-> IDLE,
     error |-> Undefined,
     name |-> Undefined]

\* startRecording without its setPermissionError(null)
KeptPermissionError(current) == current

\* setPermissionError(null) at the head of startRecording
ClearedPermissionError(current) == NullStr

\* the start button (rendered while !isRecording): startRecording up to its await
StartRecording ==
    /\ ~isRecording
    /\ Len(sessions) < MaxSessions
    /\ Committed < MaxRecordings
    /\ permissionError' = ClearedPermissionError(permissionError)
    /\ sessions' = Append(sessions, NewSession(recordingTime))
    /\ lastOp' = NoOp
    /\ UNCHANGED <<isRecording, recordings, recordingTime, mediaStream, mediaRecorderRef,
                   chunksRef, timerRef, transcribing, uploads, objectURLs,
                   uuidCount, now, seconds, formatted, vizVars>>

\* getUserMedia rejects: the catch of startRecording
GetUserMediaRejected(s) ==
    /\ sessions[s].phase = "awaiting"
    /\ sessions' = [sessions EXCEPT ![s].phase = "denied"]
    /\ permissionError' = PERMISSION_DENIED
    /\ lastOp' = NoOp
    /\ UNCHANGED <<isRecording, recordings, recordingTime, mediaStream, mediaRecorderRef,
                   chunksRef, timerRef, transcribing, uploads, objectURLs,
                   uuidCount, now, seconds, formatted, vizVars>>

\* getUserMedia resolves and the rest of the try block runs to its end
GetUserMediaResolved(s) ==
    /\ sessions[s].phase = "awaiting"
    /\ mediaStream' = s
    /\ mediaRecorderRef' = s
    /\ chunksRef' = <<>>
    /\ isRecording' = TRUE
    /\ timerRef' = s
    /\ sessions' = [sessions EXCEPT ![s].phase = "recording", ![s].live = TRUE,
                                    ![s].timer = TRUE, ![s].startTime = now]
    /\ lastOp' = NoOp
    /\ UNCHANGED <<recordings, recordingTime, permissionError, transcribing, uploads,
                   objectURLs, uuidCount, now, seconds, formatted, vizVars>>

\* getUserMedia resolves, then new MediaRecorder(stream) or mediaRecorder.start()
\* throws: the statements before the throw have run, then the catch
GetUserMediaResolvedThenThrown(s, at) ==
    /\ sessions[s].phase = "awaiting"
    /\ mediaStream' = s
    /\ IF at = "start"
       THEN mediaRecorderRef' = s /\ chunksRef' = <<>>
       ELSE UNCHANGED <<mediaRecorderRef, chunksRef>>
    /\ sessions' = [sessions EXCEPT ![s].phase = "failed", ![s].live = TRUE]
    /\ permissionError' = PERMISSION_DENIED
    /\ lastOp' = NoOp
    /\ UNCHANGED <<isRecording, recordings, recordingTime, timerRef, transcribing, uploads,
                   objectURLs, uuidCount, now, seconds, formatted, vizVars>>

\* the interval callback of session s: setRecordingTime((Date.now() - startTime) / 1000)
TimerTick(s) ==
    /\ sessions[s].timer
    /\ recordingTime' = now - sessions[s].startTime
    /\ lastOp' = NoOp
    /\ UNCHANGED <<isRecording, recordings, mediaStream, permissionError, mediaRecorderRef,
                   chunksRef, timerRef, sessions, transcribing, uploads, objectURLs,
                   uuidCount, now, seconds, formatted, vizVars>>

\* the stop button (rendered while isRecording): stopRecording.
\* MediaRecorder.stop() on a recorder that is not recording does nothing.
StopRecording ==
    /\ isRecording
    /\ mediaRecorderRef # Null
    /\ isRecording' = FALSE
    /\ timerRef' = Null
    /\ sessions' = [s \in Indices(sessions) |->
                      [sessions[s] EXCEPT
                         !.phase = IF s = mediaRecorderRef /\ @ = "recording"
                                   THEN "stopping" ELSE @,
                         !.timer = IF s = timerRef THEN FALSE ELSE @]]
    /\ lastOp' = NoOp
    /\ UNCHANGED <<recordings, recordingTime, mediaStream, permissionError, mediaRecorderRef,
                   chunksRef, transcribing, uploads, objectURLs, uuidCount, now,
                   seconds, formatted, vizVars>>

\* the recorder of session s delivers its data: mediaRecorder.ondataavailable.
\* A chunk is named by the session that produced it.
OnDataAvailable(s, size) ==
    /\ sessions[s].phase = "stopping"
    /\ chunksRef' = IF size > 0 THEN Append(chunksRef, s) ELSE chunksRef
    /\ sessions' = [sessions EXCEPT ![s].phase = "flushed"]
    /\ lastOp' = NoOp
    /\ UNCHANGED <<isRecording, recordings, recordingTime, mediaStream, permissionError,
                   mediaRecorderRef, timerRef, transcribing, uploads, objectURLs,
                   uuidCount, now, seconds, formatted, vizVars>>

\* the recorder of session s fires its stop event: mediaRecorder.onstop
OnStop(s) ==
    /\ sessions[s].phase = "flushed"
    /\ recordings' = AddRecording(
           CapturedRecording(s, uuidCount + 1, RecordingUrl(uuidCount + 1)), recordings)
    /\ uuidCount' = uuidCount + 1
    /\ objectURLs' = objectURLs \cup {RecordingUrl(uuidCount + 1)}
    /\ recordingTime' = 0
    /\ sessions' = [sessions EXCEPT ![s].phase = "stopped", ![s].live = FALSE,
                                    ![s].closureTime = 0,
                                    ![s].startTime = IF sessions[s].timer THEN @ ELSE 0]
    /\ mediaStream' = Null
    /\ lastOp' = NoOp
    /\ UNCHANGED <<isRecording, permissionError, mediaRecorderRef, chunksRef, timerRef,
                   transcribing, uploads, now, seconds, formatted, vizVars>>

----------------------------------------------------------------------------
(* Upload: App.handleFileChange and audioUtils.getAudioDuration *)

\* the Recording built by handleFileChange
UploadedRecording(file, duration, id, url) ==
    [id |-> id,
     blob |-> [type |-> file.type, parts |-> file.parts],
     url |-> url,
     timestamp |-> now,
     duration |-> duration,
     transcript |-> NullStr,
     status |-> IDLE,
     error |-> Undefined,
     name |-> file.name]

\* the change event of the file input with no file: if (!file) return
HandleFileChangeEmpty ==
    /\ lastOp' = NoOp
    /\ UNCHANGED <<isRecording, recordings, recordingTime, mediaStream, permissionError,
                   mediaRecorderRef, chunksRef, timerRef, sessions, transcribing, uploads,
                   objectURLs, uuidCount, now, seconds, formatted, vizVars>>

\* the change event with a file: handleFileChange up to its await; getAudioDuration
\* has created the URL it loads the metadata from
HandleFileChange(file) ==
    /\ Committed < MaxRecordings
    /\ uploads' = Append(uploads, [file |-> file, url |-> MetadataUrl])
    /\ objectURLs' = objectURLs \cup {MetadataUrl}
    /\ lastOp' = NoOp
    /\ UNCHANGED <<isRecording, recordings, recordingTime, mediaStream, permissionError,
                   mediaRecorderRef, chunksRef, timerRef, sessions, transcribing,
                   uuidCount, now, seconds, formatted, vizVars>>

\* audio.onloadedmetadata (loaded) or audio.onerror (~loaded) of upload k, then the
\* rest of handleFileChange
GetAudioDurationSettled(k, loaded) ==
    /\ k \in Indices(uploads)
    /\ LET file == uploads[k].file
           duration == IF loaded THEN file.duration ELSE 0
       IN recordings' = AddRecording(
              UploadedRecording(file, duration, uuidCount + 1,
                                RecordingUrl(uuidCount + 1)), recordings)
    /\ uuidCount' = uuidCount + 1
    /\ objectURLs' = (objectURLs \ {uploads[k].url}) \cup {RecordingUrl(uuidCount + 1)}
    /\ uploads' = RemoveAt(uploads, k)
    /\ lastOp' = NoOp
    /\ UNCHANGED <<isRecording, recordingTime, mediaStream, permissionError,
                   mediaRecorderRef, chunksRef, timerRef, sessions, transcribing, now,
                   seconds, formatted, vizVars>>

----------------------------------------------------------------------------
(* Transcription: RecordingItem.handleTranscribe, App.handleTranscribe,      *)
(* geminiService.transcribeAudio, audioUtils.blobToBase64.  A record of      *)
(* transcribing is one invocation of App.handleTranscribe suspended in       *)
(* await transcribeAudio(recording.blob), with the id and the blob of its    *)
(* closure, and the await transcribeAudio itself is suspended in:            *)
(*   phase  reading  (await blobToBase64: the FileReader reads the blob)     *)
(*          calling  (await ai.models.generateContent)                       *)
(* transcribeAudio settles once: it resolves when generateContent resolves,  *)
(* and rejects when the FileReader fails or generateContent rejects.         *)
(***************************************************************************)

\* TranscribedText returning response.text as it is
TranscribedTextAsIs(text) == text

\* return response.text || "..."
TranscribedText(text) == IF text = "" THEN NO_TRANSCRIPT ELSE text

\* throw new Error(error.message || "...")
RethrownMessage(message) == IF message = "" THEN TRANSCRIBE_AUDIO_FAILED ELSE message

\* HandleTranscribeCatch storing the message of the error it caught
HandleTranscribeCatchMessage(prev, id, error) ==
    [recordings |-> [j \in Indices(prev) |->
                        IF prev[j].id = id
                        THEN [prev[j] EXCEPT !.status = ERROR, !.error = error]
                        ELSE prev[j]],
     thrown |-> NullStr]

\* the catch block of App.handleTranscribe: the new list, and the error it throws
\* on to its caller (none)
HandleTranscribeCatch(prev, id, error) ==
    [recordings |-> SetError(prev, id), thrown |-> NullStr]

\* AfterCatch calling transcribeAudio again: the invocation stays suspended
AfterCatchRetry(calls, k) == calls

\* the suspended invocations once invocation k has run its catch block
AfterCatch(calls, k) == RemoveAt(calls, k)

\* App.handleTranscribe(id) up to its await: recordings.find, then setRecordings
HandleTranscribe(id) ==
    IF \E j \in Indices(recordings) : recordings[j].id = id
    THEN LET recording == recordings[CHOOSE j \in Indices(recordings) :
                                         recordings[j].id = id]
         IN /\ recordings' = SetLoading(recordings, id)
            /\ transcribing' = Append(transcribing,
                   [id |-> id, blob |-> recording.blob, phase |-> "reading"])
            /\ lastOp' = Op("handleTranscribe", id, recording.status)
    ELSE /\ UNCHANGED <<recordings, transcribing>>
         /\ lastOp' = Op("notFound", id, "")

\* the button of item i: RecordingItem.handleTranscribe
Transcribe(i) ==
    /\ i \in Indices(recordings)
    /\ IF CanTranscribe(recordings[i].status)
       THEN HandleTranscribe(recordings[i].id)
       ELSE /\ UNCHANGED <<recordings, transcribing>>
            /\ lastOp' = Op("ignored", recordings[i].id, "")
    /\ UNCHANGED <<isRecording, recordingTime, mediaStream, permissionError,
                   mediaRecorderRef, chunksRef, timerRef, sessions, uploads, objectURLs,
                   uuidCount, now, seconds, formatted, vizVars>>

\* reader.onloadend of invocation k: blobToBase64 resolves and transcribeAudio calls
\* generateContent
BlobToBase64Resolved(k) ==
    /\ k \in Indices(transcribing)
    /\ transcribing[k].phase = "reading"
    /\ transcribing' = [transcribing EXCEPT ![k].phase = "calling"]
    /\ lastOp' = NoOp
    /\ UNCHANGED <<isRecording, recordings, recordingTime, mediaStream, permissionError,
                   mediaRecorderRef, chunksRef, timerRef, sessions, uploads, objectURLs,
                   uuidCount, now, seconds, formatted, vizVars>>

\* generateContent of invocation k resolves, response.text being text: transcribeAudio
\* resolves
TranscribeResolved(k, text) ==
    /\ k \in Indices(transcribing)
    /\ transcribing[k].phase = "calling"
    /\ recordings' = SetSuccess(recordings, transcribing[k].id, TranscribedText(text))
    /\ transcribing' = RemoveAt(transcribing, k)
    /\ lastOp' = Op("success", transcribing[k].id, "")
    /\ UNCHANGED <<isRecording, recordingTime, mediaStream, permissionError,
                   mediaRecorderRef, chunksRef, timerRef, sessions, uploads, objectURLs,
                   uuidCount, now, seconds, formatted, vizVars>>

\* transcribeAudio of invocation k rejects: reader.onerror fired (the event it rejects
\* with has no message: "") or generateContent rejected with an error whose
\* error.message is message
TranscribeRejected(k, message) ==
    /\ k \in Indices(transcribing)
    /\ transcribing[k].phase = "reading" => message = ""
    /\ LET id == transcribing[k].id
           caught == HandleTranscribeCatch(recordings, id, RethrownMessage(message))
       IN /\ recordings' = caught.recordings
          /\ lastOp' = Op("catch", id, caught.thrown)
    /\ transcribing' = AfterCatch(transcribing, k)
    /\ UNCHANGED <<isRecording, recordingTime, mediaStream, permissionError,
                   mediaRecorderRef, chunksRef, timerRef, sessions, uploads, objectURLs,
                   uuidCount, now, seconds, formatted, vizVars>>

\* App.handleTranscribe called with an id that no recording of the list has.
\* RecordingItem never makes this call: it passes the id of an item of the render
\* whose list handleTranscribe searches.
HandleTranscribeUnknown(id) ==
    /\ id \notin Ids(recordings)
    /\ HandleTranscribe(id)
    /\ UNCHANGED <<isRecording, recordingTime, mediaStream, permissionError,
                   mediaRecorderRef, chunksRef, timerRef, sessions, uploads, objectURLs,
                   uuidCount, now, seconds, formatted, vizVars>>

\* the delete button of item i: App.handleDelete
HandleDelete(i) ==
    /\ i \in Indices(recordings)
    /\ recordings' = RemoveRecording(recordings, recordings[i].id)
    /\ lastOp' = NoOp
    /\ UNCHANGED <<isRecording, recordingTime, mediaStream, permissionError,
                   mediaRecorderRef, chunksRef, timerRef, sessions, transcribing, uploads,
                   objectURLs, uuidCount, now, seconds, formatted, vizVars>>

----------------------------------------------------------------------------
(* AudioVisualizer.  React commits a render after each task that changed the *)
(* state of App; the commit re-runs the effect when stream or isRecording    *)
(* differ from those of its last run: first the cleanup that run returned,   *)
(* if it returned one, then the effect.  The state updates of one task are   *)
(* committed together.                                                       *)
(***************************************************************************)

\* the props AudioVisualizer is rendered with
VisualizerProps == [stream |-> mediaStream, isRecording |-> isRecording]

\* the effect of AudioVisualizer has run with the props of the current state of App
Rendered == ~mounted \/ effectDeps = VisualizerProps

\* cancelAnimationFrame that cancels nothing
CancelNothing(pending, id) == pending

\* cancelAnimationFrame(id)
CancelAnimationFrame(pending, id) == {f \in pending : f.id # id}

\* the cleanup function of the effect: what is left pending, and the canvas
Cleanup ==
    [pending |-> IF animationRef # Null
                 THEN CancelAnimationFrame(pendingFrames, animationRef)
                 ELSE pendingFrames,
     canvas |-> "clear"]

\* draw() of an effect whose closure holds closureIsRecording, the callbacks in pending
\* being those that requestAnimationFrame holds when it is called
Draw(closureIsRecording, pending) ==
    IF ~closureIsRecording
    THEN /\ pendingFrames' = pending
         /\ UNCHANGED <<animationRef, frameCount, canvas>>
    ELSE /\ animationRef' = frameCount + 1
         /\ frameCount' = frameCount + 1
         /\ pendingFrames' =
                pending \cup {[id |-> frameCount + 1, isRecording |-> closureIsRecording]}
         /\ canvas' = "bars"

\* the commit of a render with new props: cleanup of the last run, then the effect
Commit ==
    /\ mounted /\ ~Rendered
    /\ (mediaStream # Null /\ isRecording) => frameCount < MaxFrames
    /\ LET after == IF effectCleanup
                    THEN Cleanup
                    ELSE [pending |-> pendingFrames, canvas |-> canvas]
       IN IF mediaStream = Null \/ ~isRecording
          THEN /\ pendingFrames' = after.pending
               /\ canvas' = after.canvas
               /\ effectCleanup' = FALSE
               /\ UNCHANGED <<animationRef, frameCount>>
          ELSE /\ Draw(isRecording, after.pending)
               /\ effectCleanup' = TRUE
    /\ effectDeps' = VisualizerProps
    /\ lastOp' = NoOp
    /\ UNCHANGED <<isRecording, recordings, recordingTime, mediaStream, permissionError,
                   mediaRecorderRef, chunksRef, timerRef, sessions, transcribing, uploads,
                   objectURLs, uuidCount, now, seconds, formatted, mounted>>

\* the browser runs the animation frame callback f: draw()
AnimationFrame(f) ==
    /\ f \in pendingFrames
    /\ frameCount < MaxFrames
    /\ Draw(f.isRecording, pendingFrames \ {f})
    /\ lastOp' = NoOp
    /\ UNCHANGED <<isRecording, recordings, recordingTime, mediaStream, permissionError,
                   mediaRecorderRef, chunksRef, timerRef, sessions, transcribing, uploads,
                   objectURLs, uuidCount, now, seconds, formatted, mounted, effectDeps,
                   effectCleanup>>

\* AudioVisualizer unmounts: the cleanup of the last run, if it returned one
Unmount ==
    /\ mounted
    /\ mounted' = FALSE
    /\ IF effectCleanup
       THEN pendingFrames' = Cleanup.pending /\ canvas' = Cleanup.canvas
       ELSE UNCHANGED <<pendingFrames, canvas>>
    /\ effectCleanup' = FALSE
    /\ lastOp' = NoOp
    /\ UNCHANGED <<isRecording, recordings, recordingTime, mediaStream, permissionError,
                   mediaRecorderRef, chunksRef, timerRef, sessions, transcribing, uploads,
                   objectURLs, uuidCount, now, seconds, formatted, effectDeps,
                   animationRef, frameCount>>

\* no invocation of startRecording is under way
NoOpenSession ==
    \A s \in Indices(sessions) : sessions[s].phase \in {"denied", "failed", "stopped"}

\* event.data.size of the data a recorder delivers: nothing, or something
ChunkSizes == {0, 1}

\* a capture session going well: permission granted, recorder started and stopped,
\* the recorder delivering data of one of the sizes given
CaptureStep(sizes) ==
    \/ \E s \in Indices(sessions) : GetUserMediaResolved(s)
    \/ \E s \in Indices(sessions) : TimerTick(s)
    \/ StopRecording
    \/ \E s \in Indices(sessions), size \in sizes : OnDataAvailable(s, size)
    \/ \E s \in Indices(sessions) : OnStop(s)

\* startRecording failing: permission denied, or the recorder throwing
FailureStep ==
    \/ \E s \in Indices(sessions) : GetUserMediaRejected(s)
    \/ \E s \in Indices(sessions), at \in {"constructor", "start"} :
          GetUserMediaResolvedThenThrown(s, at)

\* the ways the metadata of a chosen file settles: audio.onloadedmetadata (TRUE) or
\* audio.onerror (FALSE)
LoadOutcomes == BOOLEAN

\* the steps of the recordings list, the metadata of the chosen files settling in one
\* of the ways given
ListStep(loads) ==
    \/ HandleFileChangeEmpty
    \/ \E file \in Files : HandleFileChange(file)
    \/ \E k \in Indices(uploads), loaded \in loads : GetAudioDurationSettled(k, loaded)
    \/ \E i \in Indices(recordings) : Transcribe(i)
    \/ \E k \in Indices(transcribing) : BlobToBase64Resolved(k)
    \/ \E k \in Indices(transcribing), text \in ResponseTexts : TranscribeResolved(k, text)
    \/ \E k \in Indices(transcribing), message \in ErrorMessages :
          TranscribeRejected(k, message)
    \/ \E i \in Indices(recordings) : HandleDelete(i)

\* the whole application
NextApp ==
    AdvanceClock \/ StartRecording \/ CaptureStep(ChunkSizes) \/ FailureStep
    \/ ListStep(LoadOutcomes)

SpecApp == Init /\ [][NextApp]_vars

\* the recordings list, fed by uploads of files whose metadata loads and by capture
\* sessions that are started one at a time and deliver audio
Next ==
    AdvanceClock \/ (NoOpenSession /\ StartRecording) \/ CaptureStep({1})
    \/ ListStep({TRUE})

Spec == Init /\ [][Next]_vars

\* the recording session manager, startRecording re-entered at will; the list only
\* receives the captures
NextRecorder == AdvanceClock \/ StartRecording \/ CaptureStep(ChunkSizes) \/ FailureStep

SpecRecorder == Init /\ [][NextRecorder]_vars

\* the FileReader of the request of recording id settles: onloadend or onerror
FileReadSettles(id) ==
    \E k \in Indices(transcribing) :
        /\ transcribing[k].id = id /\ transcribing[k].phase = "reading"
        /\ (BlobToBase64Resolved(k) \/ TranscribeRejected(k, ""))

\* generateContent of the request of recording id settles: it resolves or rejects
ServiceCallSettles(id) ==
    \E k \in Indices(transcribing) :
        /\ transcribing[k].id = id /\ transcribing[k].phase = "calling"
        /\ \/ \E text \in ResponseTexts : TranscribeResolved(k, text)
           \/ \E message \in ErrorMessages : TranscribeRejected(k, message)

\* uploads, transcriptions and deletions, every file read and every service call
\* settling in the end
NextTranscription == ListStep(LoadOutcomes)

SpecTranscription ==
    /\ Init
    /\ [][NextTranscription]_vars
    /\ \A id \in 1..MaxRecordings :
          WF_vars(FileReadSettles(id)) /\ WF_vars(ServiceCallSettles(id))

\* the recording session manager with the visualizer it feeds: every task of App is
\* followed by the commit of its render
NextVisualizer ==
    \/ Commit
    \/ Rendered /\ StartRecording
    \/ Rendered /\ CaptureStep(ChunkSizes)
    \/ Rendered /\ FailureStep
    \/ \E f \in pendingFrames : Rendered /\ AnimationFrame(f)
    \/ Rendered /\ Unmount

SpecVisualizer == Init /\ [][NextVisualizer]_vars

\* the handlers of the list, handleTranscribe being called with any id
NextHandlers ==
    \/ ListStep(LoadOutcomes)
    \/ \E id \in 1..MaxRecordings : HandleTranscribeUnknown(id)

SpecHandlers == Init /\ [][NextHandlers]_vars

----------------------------------------------------------------------------
(* Properties *)

\* the recording of the list recs whose id is id
RecordingOf(recs, id) == recs[CHOOSE j \in Indices(recs) : recs[j].id = id]

StatusTransitions ==
    {<<IDLE, LOADING>>, <<ERROR, LOADING>>, <<LOADING, SUCCESS>>, <<LOADING, ERROR>>}

\* C1: whenever a step changes the status of a recording that stays in the list, the
\* change is IDLE->LOADING, ERROR->LOADING, LOADING->SUCCESS or LOADING->ERROR.
C1_StatusTransitions ==
    [][\A id \in Ids(recordings) \cap Ids(recordings') :
          LET old == RecordingOf(recordings, id).status
              new == RecordingOf(recordings', id).status
          IN old # new => <<old, new>> \in StatusTransitions]_vars

\* C1 witness: a recording went IDLE->LOADING->ERROR and was retried (ERROR->LOADING)
\* while another one had gone LOADING->SUCCESS.
C1_Witness ==
    /\ lastOp.op = "handleTranscribe" /\ lastOp.info = ERROR
    /\ lastOp.id \in Ids(recordings)
    /\ RecordingOf(recordings, lastOp.id).status = LOADING
    /\ \E j \in Indices(recordings) : recordings[j].status = SUCCESS

\* C2: every object URL that was created for a recording and is not revoked belongs to
\* a recording of the list (the URLs of getAudioDuration belong to pending uploads).
C2_UrlsOfListedRecordings ==
    \A u \in objectURLs :
        \/ \E k \in Indices(uploads) : uploads[k].url = u
        \/ \E j \in Indices(recordings) : recordings[j].url = u

\* transcribeAudio of invocation k settles
Settles(k) ==
    \/ \E text \in ResponseTexts : TranscribeResolved(k, text)
    \/ \E message \in ErrorMessages : TranscribeRejected(k, message)

\* C3: when the request of a recording that is no longer in the list settles, the list
\* stays exactly as it was.
C3_AbandonedResult ==
    [][\A k \in Indices(transcribing) :
          (transcribing[k].id \notin Ids(recordings) /\ Settles(k))
              => recordings' = recordings]_vars

\* C3 witness: the request of a deleted recording has just settled while another
\* recording of the list is LOADING.
C3_Witness ==
    /\ lastOp.op \in {"success", "catch"}
    /\ lastOp.id \notin Ids(recordings)
    /\ \E j \in Indices(recordings) : recordings[j].status = LOADING

\* C4: the list is newest first: from head to tail the ids (creation order) decrease
\* and the creation times do not increase.
C4_NewestFirst ==
    \A i, j \in Indices(recordings) :
        i < j => /\ recordings[i].id > recordings[j].id
                 /\ recordings[i].timestamp >= recordings[j].timestamp

\* C4 witness: an upload and a capture made at different times are listed, and the
\* status of the newer one was updated.
C4_Witness ==
    /\ Len(recordings) = 2
    /\ recordings[1].timestamp > recordings[2].timestamp
    /\ recordings[1].status # IDLE
    /\ (recordings[1].name = Undefined) # (recordings[2].name = Undefined)

\* C5: after the catch block of handleTranscribe ran for a recording of the list, the
\* recording has status ERROR and the fixed error message, and nothing was thrown on.
C5_TranscribeFailure ==
    (lastOp.op = "catch" /\ lastOp.id \in Ids(recordings)) =>
        /\ RecordingOf(recordings, lastOp.id).status = ERROR
        /\ RecordingOf(recordings, lastOp.id).error = TRANSCRIBE_FAILED
        /\ lastOp.info = NullStr

\* C5 witness: the catch block has just run for a recording that is in the list.
C5_Witness ==
    /\ lastOp.op = "catch"
    /\ lastOp.id \in Ids(recordings)
    /\ RecordingOf(recordings, lastOp.id).status = ERROR

\* C6: when getUserMedia rejects, the permission message is set, isRecording is not
\* changed (false stays false), no recorder, stream or timer of any session is touched,
\* the refs and the list stay as they are; and every startRecording clears the message
\* in the step that calls getUserMedia.
C6_PermissionDenied ==
    [][/\ \A s \in Indices(sessions) :
            GetUserMediaRejected(s) =>
                /\ permissionError' = PERMISSION_DENIED
                /\ isRecording' = isRecording
                /\ mediaRecorderRef' = mediaRecorderRef /\ timerRef' = timerRef
                /\ mediaStream' = mediaStream /\ chunksRef' = chunksRef
                /\ recordings' = recordings
                /\ sessions'[s].phase = "denied"
                /\ ~sessions'[s].timer /\ ~sessions'[s].live
                /\ \A t \in Indices(sessions) \ {s} : sessions'[t] = sessions[t]
       /\ Len(sessions') > Len(sessions) =>
                /\ permissionError' = NullStr
                /\ sessions'[Len(sessions')].phase = "awaiting"]_vars

\* C6 witness: access was denied while nothing was being recorded (message shown, no
\* recorder, no timer, no recording), and a later startRecording has cleared the message
\* and awaits getUserMedia.
C6_Witness ==
    /\ Len(sessions) = 2
    /\ sessions[1].phase = "denied" /\ sessions[2].phase = "awaiting"
    /\ permissionError = NullStr
    /\ ~isRecording /\ mediaRecorderRef = Null /\ timerRef = Null
    /\ recordings = <<>>

\* the fields of a Recording that are set at creation
Created(r) == <<r.id, r.blob, r.url, r.timestamp, r.duration, r.name>>

\* the fields of a Recording that the transcription flow sets
Transcription(r) == <<r.status, r.transcript, r.error>>

\* C7: a step leaves id, blob, url, timestamp, duration and name of every recording
\* that stays in the list as they are, and changes its status, transcript or error
\* only if it is a step of handleTranscribe for that recording.
C7_OnlyTranscriptionMutates ==
    [][\A i \in Indices(recordings), j \in Indices(recordings') :
          recordings'[j].id = recordings[i].id =>
              /\ Created(recordings'[j]) = Created(recordings[i])
              /\ Transcription(recordings'[j]) # Transcription(recordings[i]) =>
                     /\ lastOp'.op \in {"handleTranscribe", "success", "catch"}
                     /\ lastOp'.id = recordings[i].id]_vars

\* C7 witness: an uploaded recording (it has a name and a duration) went through the
\* transcription flow to SUCCESS.
C7_Witness ==
    \E j \in Indices(recordings) :
        /\ recordings[j].name # Undefined /\ recordings[j].duration > 0
        /\ recordings[j].status = SUCCESS /\ recordings[j].transcript # NullStr

\* the suspended invocations of handleTranscribe for recording id
Requests(calls, id) == {k \in Indices(calls) : calls[k].id = id}

\* C8: a step adds a request only if it is an accepted transcribe click, which adds
\* exactly one, for the clicked recording; a recording in ERROR has no request in
\* flight; and a click on a recording in ERROR puts it in LOADING with no error message.
C8_NoAutomaticRetry ==
    [][/\ \A i \in Indices(recordings) :
            (Transcribe(i) /\ CanTranscribe(recordings[i].status)) =>
                /\ Len(transcribing') = Len(transcribing) + 1
                /\ SubSeq(transcribing', 1, Len(transcribing)) = transcribing
                /\ transcribing'[Len(transcribing')].id = recordings[i].id
                /\ RecordingOf(recordings', recordings[i].id).status = LOADING
                /\ RecordingOf(recordings', recordings[i].id).error = Undefined
       /\ Len(transcribing') > Len(transcribing) =>
            \E i \in Indices(recordings) :
                Transcribe(i) /\ CanTranscribe(recordings[i].status)
       /\ \A j \in Indices(recordings') :
            recordings'[j].status = ERROR =>
                Requests(transcribing', recordings'[j].id) = {}]_vars

\* C8 witness: a recording in ERROR was retried by the user: it is LOADING, its error
\* message is cleared and exactly one request is in flight for it.
C8_Witness ==
    /\ lastOp.op = "handleTranscribe" /\ lastOp.info = ERROR
    /\ lastOp.id \in Ids(recordings)
    /\ RecordingOf(recordings, lastOp.id).status = LOADING
    /\ RecordingOf(recordings, lastOp.id).error = Undefined
    /\ Cardinality(Requests(transcribing, lastOp.id)) = 1

\* the value of a digit character, -1 for any other character
DigitValue(c) ==
    IF \E d \in 1..10 : Digits[d] = c THEN (CHOOSE d \in 1..10 : Digits[d] = c) - 1 ELSE 0 - 1

RECURSIVE ParseNat(_)
\* the number a sequence of digit characters writes
ParseNat(str) ==
    IF str = <<>> THEN 0
    ELSE 10 * ParseNat(SubSeq(str, 1, Len(str) - 1)) + DigitValue(str[Len(str)])

\* C9: the result of formatDuration reads M:SS, M being seconds div 60 written without
\* padding and SS being seconds mod 60 written with exactly two digits.
C9_FormatDuration ==
    formatted # <<>> =>
        LET n == Len(formatted)
            M == SubSeq(formatted, 1, n - 3)
            SS == SubSeq(formatted, n - 1, n)
        IN /\ n >= 4
           /\ formatted[n - 2] = ":"
           /\ \A j \in (1..n) \ {n - 2} : DigitValue(formatted[j]) >= 0
           /\ ParseNat(SS) = seconds % 60 /\ ParseNat(SS) <= 59
           /\ ParseNat(M) = seconds \div 60
           /\ (Len(M) > 1 => M[1] # "0")

\* C9 witness: 605 seconds are formatted as 10:05 (two digits of minutes, padded
\* seconds).
C9_Witness == seconds = 605 /\ formatted = <<"1", "0", ":", "0", "5">>

\* C10: the recording that onstop creates has as duration the value recordingTime has
\* reached when the session is stopped.
C10_DurationIsElapsedTime ==
    [][\A s \in Indices(sessions) :
          OnStop(s) => recordings'[1].duration = recordingTime]_vars

\* an invocation of startRecording is suspended, or a stopped recorder has not yet
\* fired its stop event
SessionInProgress(s) == sessions[s].phase \in {"awaiting", "stopping", "flushed"}

\* C11: when isRecording is false, no startRecording is still in progress and no stop
\* event is still due, no stream that a startRecording acquired has a live track.
C11_MicrophoneReleased ==
    (~isRecording /\ \A s \in Indices(sessions) : ~SessionInProgress(s)) =>
        \A s \in Indices(sessions) : ~sessions[s].live

\* recording id is in the list with status LOADING
IsLoading(id) ==
    \E j \in Indices(recordings) : recordings[j].id = id /\ recordings[j].status = LOADING

\* recording id is in the list with status SUCCESS or ERROR, or is not in the list
HasLeftLoading(id) ==
    \A j \in Indices(recordings) :
        recordings[j].id = id => recordings[j].status \in {SUCCESS, ERROR}

\* C12: a recording that is LOADING eventually has status SUCCESS or ERROR or is
\* deleted, provided every file read and every service call eventually settles.
C12_LoadingLeaves ==
    \A id \in 1..MaxRecordings : IsLoading(id) ~> HasLeftLoading(id)

\* C12 witness: the service call of a listed recording has just resolved after its file
\* was read, the recording is SUCCESS and no request is left in flight.
C12_Witness ==
    /\ lastOp.op = "success"
    /\ \E j \in Indices(recordings) :
          recordings[j].id = lastOp.id /\ recordings[j].status = SUCCESS
    /\ transcribing = <<>>

\* C13: once the recorder of a session has delivered its data the chunk buffer holds
\* the non-empty chunks of that session and nothing else, and the payload of the
\* recording that onstop creates for a session holds chunks of that session only.
C13_PayloadOfSession ==
    [][\A s \in Indices(sessions) :
          /\ \A size \in ChunkSizes :
                OnDataAvailable(s, size) =>
                    chunksRef' = IF size > 0 THEN <<s>> ELSE <<>>
          /\ OnStop(s) =>
                \A c \in Indices(recordings'[1].blob.parts) :
                    recordings'[1].blob.parts[c] = s]_vars

\* the visualizer is mounted and rendered with a stream while isRecording is true
VisualizerActive == mounted /\ Rendered /\ mediaStream # Null /\ isRecording

\* C14: at most one animation frame callback is pending, and exactly one while the
\* visualizer is active; a frame that runs draws and leaves exactly one successor
\* pending; callbacks are pending only for an effect run with a stream and isRecording
\* true; and once the cleanup has run (isRecording false, stream changed, unmount) no
\* callback is pending and the canvas is clear.
C14_OneFramePerTick ==
    [][/\ Cardinality(pendingFrames') <= 1
       /\ VisualizerActive' => Cardinality(pendingFrames') = 1
       /\ \A f \in pendingFrames :
             AnimationFrame(f) =>
                 /\ Cardinality(pendingFrames') = 1
                 /\ f \notin pendingFrames'
                 /\ canvas' = "bars"
       /\ pendingFrames' # {} =>
             effectCleanup' /\ effectDeps'.isRecording /\ effectDeps'.stream # Null
       /\ ~effectCleanup' => pendingFrames' = {} /\ canvas' = "clear"
       /\ (effectCleanup /\ (Commit \/ Unmount)) =>
             /\ pendingFrames \cap pendingFrames' = {}
             /\ ~effectCleanup' => canvas' = "clear"]_vars

\* C14 witness: frames were drawn during a session, the session was stopped and the
\* cleanup of the effect has run: nothing is pending and the canvas is clear.
C14_Witness ==
    /\ mounted /\ Rendered /\ ~isRecording
    /\ frameCount >= 2
    /\ animationRef = frameCount
    /\ pendingFrames = {} /\ canvas = "clear"

\* C15: at most one recorder is started and not stopped, at most one timer interval
\* exists, an interval exists only while isRecording is true, and recordingTime is 0
\* whenever isRecording is false and no recorder is recording or about to fire its stop
\* event.
C15_OneActiveSession ==
    /\ Cardinality({s \in Indices(sessions) : sessions[s].phase = "recording"}) <= 1
    /\ Cardinality({s \in Indices(sessions) : sessions[s].timer}) <= 1
    /\ (\E s \in Indices(sessions) : sessions[s].timer) => isRecording
    /\ (/\ ~isRecording
        /\ \A s \in Indices(sessions) :
              sessions[s].phase \notin {"recording", "stopping", "flushed"})
           => recordingTime = 0

\* C16: a listed recording has exactly one request in flight when its status is
\* LOADING and none otherwise; and a transcribe click on a recording whose status is
\* LOADING or SUCCESS leaves the list, the requests and the rest of App as they are.
C16_OneRequestIffLoading ==
    [][/\ \A j \in Indices(recordings') :
             Cardinality(Requests(transcribing', recordings'[j].id))
                 = IF recordings'[j].status = LOADING THEN 1 ELSE 0
       /\ \A i \in Indices(recordings) :
             (Transcribe(i) /\ recordings[i].status \in {LOADING, SUCCESS}) =>
                 /\ recordings' = recordings /\ transcribing' = transcribing
                 /\ uploads' = uploads /\ sessions' = sessions
                 /\ objectURLs' = objectURLs /\ uuidCount' = uuidCount
                 /\ isRecording' = isRecording /\ mediaStream' = mediaStream]_vars

\* C16 witness: a click on a recording that is LOADING was ignored: its one request is
\* still the only one in flight for it, while another recording is SUCCESS with none.
C16_Witness ==
    /\ lastOp.op = "ignored"
    /\ \E j \in Indices(recordings) :
          /\ recordings[j].id = lastOp.id /\ recordings[j].status = LOADING
          /\ Cardinality(Requests(transcribing, lastOp.id)) = 1
    /\ \E j \in Indices(recordings) :
          /\ recordings[j].status = SUCCESS
          /\ Requests(transcribing, recordings[j].id) = {}

\* C17: a listed recording with status SUCCESS has a transcript that is neither null
\* nor the empty string, and one with status IDLE has a null transcript.
C17_TranscriptOfStatus ==
    \A j \in Indices(recordings) :
        /\ recordings[j].status = SUCCESS => recordings[j].transcript \notin {NullStr, ""}
        /\ recordings[j].status = IDLE => recordings[j].transcript = NullStr

\* C17 witness: the service answered with an empty text and the recording is SUCCESS
\* with the fallback text, while another recording is still IDLE.
C17_Witness ==
    /\ \E j \in Indices(recordings) :
          recordings[j].status = SUCCESS /\ recordings[j].transcript = NO_TRANSCRIPT
    /\ \E j \in Indices(recordings) : recordings[j].status = IDLE

\* C18: a listed recording has an error message exactly when its status is ERROR.
C18_ErrorIffStatusError ==
    \A j \in Indices(recordings) :
        (recordings[j].error # Undefined) <=> (recordings[j].status = ERROR)

\* C18 witness: a recording that was ERROR has just been retried and is LOADING without
\* an error message, while another recording is ERROR with the message.
C18_Witness ==
    /\ lastOp.op = "handleTranscribe" /\ lastOp.info = ERROR
    /\ \E j \in Indices(recordings) :
          /\ recordings[j].id = lastOp.id
          /\ recordings[j].status = LOADING /\ recordings[j].error = Undefined
    /\ \E j \in Indices(recordings) :
          recordings[j].status = ERROR /\ recordings[j].error = TRANSCRIBE_FAILED

\* the recordings of recs other than recording id, in their order
Others(recs, id) == SelectSeq(recs, LAMBDA r : r.id # id)

\* C19: a transcribe click, a step of a transcription request and a deletion leave the
\* recordings other than the one they address as they are, in the same order; and
\* handleTranscribe called with an id that is not in the list leaves the list as it is
\* and starts no request.
C19_OtherRecordingsUnchanged ==
    [][/\ \A i \in Indices(recordings) :
             (Transcribe(i) \/ HandleDelete(i)) =>
                 Others(recordings', recordings[i].id) = Others(recordings, recordings[i].id)
       /\ \A k \in Indices(transcribing) :
             (BlobToBase64Resolved(k) \/ Settles(k)) =>
                 Others(recordings', transcribing[k].id)
                     = Others(recordings, transcribing[k].id)
       /\ \A id \in 1..MaxRecordings :
             HandleTranscribeUnknown(id) =>
                 recordings' = recordings /\ transcribing' = transcribing]_vars

\* C19 witness: handleTranscribe has just been called with the id of a recording that
\* was deleted while its request was in flight; another recording is listed and has
\* been transcribed.
C19_Witness ==
    /\ lastOp.op = "notFound"
    /\ lastOp.id \notin Ids(recordings)
    /\ Requests(transcribing, lastOp.id) # {}
    /\ \E j \in Indices(recordings) : recordings[j].status = SUCCESS

\* formatDuration applied to any whole number of seconds up to MaxSeconds
InitFormat == InitApp /\ InitVisualizer /\ seconds \in 0..MaxSeconds /\ formatted = <<>>

FormatDuration ==
    /\ formatted = <<>>
    /\ formatted' = formatDuration(seconds)
    /\ UNCHANGED <<isRecording, recordings, recordingTime, mediaStream, permissionError,
                   mediaRecorderRef, chunksRef, timerRef, sessions, transcribing, uploads,
                   objectURLs, uuidCount, now, lastOp, seconds, vizVars>>

NextFormat == FormatDuration

SpecFormat == InitFormat /\ [][NextFormat]_vars
====
